---- MODULE Spec2Model ----
(***************************************************************************)
(* A model of excel_to_db_code: the half validator (validators.py), the    *)
(* duplicate detector (validators.py), the reference resolver, the insert  *)
(* executor and the run of main (main.py) against the store (db.py).       *)
(*                                                                         *)
(* Python values are modelled as follows.                                  *)
(*   - a spreadsheet cell is a record [t, n, s]: t is the Python type,     *)
(*     n the number (an int, or a float counted in tenths) and s the text  *)
(*     of a str as a sequence of one-character strings;                    *)
(*   - Optional[X] is a sequence of length 0 (None) or 1;                  *)
(*   - a list is a sequence, a dict with fixed keys is a record.           *)
(***************************************************************************)
EXTENDS Integers, Sequences, FiniteSets, TLC

VARIABLES
    pc,                 \* position of the run
    stage,              \* args.stage
    halves,             \* list(iter_excel_halves(path)): <<row_number, half_index, raw>>
    api_participant,    \* table api_participant: set of [id, chest_number]
    api_assessoringroup,\* table api_assessoringroup: set of rows
    table,              \* api_assessorevaluation as the open transaction sees it
    committed,          \* api_assessorevaluation as committed
    store_before,       \* api_assessorevaluation as committed when the run began
    inserts,            \* main: inserts
    all_errors,         \* main: all_errors
    duplicate_inserts_in_excel,
    duplicate_inserts_in_excel_and_db,
    errors_csv,         \* content of validation_errors.csv
    duplications_csv,   \* content of duplications_errors.csv
    exec_log,           \* content of the execution log (output_path)
    counts,             \* [inserted_rows, skipped_rows] of the last executor call
    outcome,            \* how main ended: "running", "None", "3", or the exception raised
    calls,              \* how often the store was asked: [find_db, execute, commit, rollback]
    runs,               \* one entry per committed executor call: [inserted, skipped, table]
    raw_in,             \* validate_half's argument (its own row_number, half)
    vresult,            \* validate_half's result, as Optional
    sheet,              \* the rows of the worksheet from row 2 on, each a tuple of cells
    resolve_in,         \* _resolve_evaluation_ids' arguments [half, half_index, row_number]
    resolved            \* _resolve_evaluation_ids' result, as Optional

vars == <<pc, stage, store_before, halves, api_participant, api_assessoringroup, table, committed,
          inserts, all_errors, duplicate_inserts_in_excel,
          duplicate_inserts_in_excel_and_db, errors_csv, duplications_csv, exec_log, counts, outcome,
          calls, runs, raw_in, vresult, sheet, resolve_in, resolved>>

----------------------------------------------------------------------------
(* Cell values *)

None == [t |-> "None", n |-> 0, s |-> <<>>]
IntV(n) == [t |-> "int", n |-> n, s |-> <<>>]
\* a float, counted in tenths: FloatV(105) is 10.5, FloatV(420) is 42.0
FloatV(tenths) == [t |-> "float", n |-> tenths, s |-> <<>>]
StrV(chars) == [t |-> "str", n |-> 0, s |-> chars]
\* a cell openpyxl reads as a datetime: neither a str nor a number
DateV == [t |-> "datetime", n |-> 0, s |-> <<>>]

DigitChars == <<"0", "1", "2", "3", "4", "5", "6", "7", "8", "9">>
IsDigit(c) == \E i \in 1..10 : DigitChars[i] = c
DigitVal(c) == (CHOOSE i \in 1..10 : DigitChars[i] = c) - 1
IsSpace(c) == c = " "

\* str.strip()
RECURSIVE LStrip(_)
LStrip(s) == IF s # <<>> /\ IsSpace(Head(s)) THEN LStrip(Tail(s)) ELSE s
RECURSIVE RStrip(_)
RStrip(s) ==
    IF s # <<>> /\ IsSpace(s[Len(s)]) THEN RStrip(SubSeq(s, 1, Len(s) - 1)) ELSE s
Strip(s) == RStrip(LStrip(s))

RECURSIVE DigitsValue(_)
DigitsValue(s) ==
    IF s = <<>> THEN 0
    ELSE 10 * DigitsValue(SubSeq(s, 1, Len(s) - 1)) + DigitVal(s[Len(s)])

\* int(str): surrounding whitespace, an optional sign, then digits only
\* (the texts of the model hold no underscore); anything else raises ValueError
PyIntOfStr(s) ==
    LET t == Strip(s)
        signed == t # <<>> /\ Head(t) \in {"-", "+"}
        body == IF signed THEN Tail(t) ELSE t
    IN  IF body = <<>> \/ \E i \in 1..Len(body) : ~IsDigit(body[i])
        THEN <<>>
        ELSE IF signed /\ Head(t) = "-" THEN <<0 - DigitsValue(body)>>
             ELSE <<DigitsValue(body)>>

\* int(float) truncates towards zero
PyIntOfFloat(tenths) ==
    IF tenths >= 0 THEN tenths \div 10 ELSE 0 - ((0 - tenths) \div 10)

\* int(v): <<n>>, or <<>> when it raises (ValueError, TypeError)
PyInt(v) ==
    CASE v.t = "int" -> <<v.n>>
      [] v.t = "float" -> <<PyIntOfFloat(v.n)>>
      [] v.t = "str" -> PyIntOfStr(v.s)
      [] OTHER -> <<>>

\* float.is_integer()
float_is_integer(v) == v.n % 10 = 0

RECURSIVE NatChars(_)
NatChars(n) ==
    IF n < 10 THEN <<DigitChars[n + 1]>>
    ELSE NatChars(n \div 10) \o <<DigitChars[(n % 10) + 1]>>

\* str(v) of an int or a str
PyStr(v) ==
    CASE v.t = "str" -> v.s
      [] v.t = "int" -> IF v.n < 0 THEN <<"-">> \o NatChars(0 - v.n) ELSE NatChars(v.n)
      [] OTHER -> <<"?">>

----------------------------------------------------------------------------
(* validators.py: the half validator *)

is_empty_value(v) == v.t = "None" \/ (v.t = "str" /\ Strip(v.s) = <<>>)

HalfKeys == <<"group_id", "chest_number", "candidate_name", "assessor_name", "grade", "comment">>

is_half_empty(d) == \A i \in 1..Len(HalfKeys) : is_empty_value(d[HalfKeys[i]])

ExcelValidationError(row_number, half, field, message) ==
    [row_number |-> row_number, half |-> half, field |-> field, message |-> message]

required_fields == <<"group_id", "chest_number", "grade", "comment">>
int_fields == <<"group_id", "chest_number", "grade">>
IntFieldSet == {int_fields[i] : i \in 1..Len(int_fields)}

\* lines 49-55 of validate_half: the value the try block computes, both branches
CoerceInt(v) ==
    IF v.t = "float" /\ float_is_integer(v) THEN PyInt(v) ELSE PyInt(v)

\* models/half.py: HalfInput(**raw) on a raw half whose int fields were coerced:
\* <<model>>, or <<>> when pydantic rejects a field. A name must be None or a
\* str; no half of the model has another one.
HalfInput(raw) ==
    IF \E f \in {"candidate_name", "assessor_name"} : raw[f].t \notin {"None", "str"}
    THEN <<>>
    ELSE <<[group_id |-> raw.group_id.n,
            chest_number |-> raw.chest_number.n,
            candidate_name |-> raw.candidate_name,
            assessor_name |-> raw.assessor_name,
            grade |-> raw.grade.n,
            comment |-> IF raw.comment.t = "None" THEN <<>> ELSE PyStr(raw.comment)]>>

\* a validate_half that stops at the first error
validate_half_first_error_only(raw, row_number, half) ==
    LET missing == SelectSeq(required_fields, LAMBDA f : is_empty_value(raw[f]))
        bad == SelectSeq(int_fields,
                         LAMBDA f : ~is_empty_value(raw[f]) /\ CoerceInt(raw[f]) = <<>>)
        errors ==
            [i \in 1..Len(missing) |->
                ExcelValidationError(row_number, half, missing[i], "missing required field")]
            \o [i \in 1..Len(bad) |->
                ExcelValidationError(row_number, half, bad[i], "must be an integer")]
        coerced == [f \in DOMAIN raw |->
                       IF f \in IntFieldSet /\ ~is_empty_value(raw[f]) /\ CoerceInt(raw[f]) # <<>>
                       THEN IntV(CoerceInt(raw[f])[1]) ELSE raw[f]]
    IN  IF errors # <<>> THEN [model |-> <<>>, errors |-> <<Head(errors)>>]
        ELSE IF HalfInput(coerced) # <<>> THEN [model |-> HalfInput(coerced), errors |-> <<>>]
        ELSE [model |-> <<>>,
              errors |-> <<ExcelValidationError(row_number, half, "__model__", "ValidationError")>>]

\* validate_half: [model |-> Optional[HalfInput], errors |-> list]
validate_half(raw, row_number, half) ==
    LET missing == SelectSeq(required_fields, LAMBDA f : is_empty_value(raw[f]))
        bad == SelectSeq(int_fields,
                         LAMBDA f : ~is_empty_value(raw[f]) /\ CoerceInt(raw[f]) = <<>>)
        errors ==
            [i \in 1..Len(missing) |->
                ExcelValidationError(row_number, half, missing[i], "missing required field")]
            \o [i \in 1..Len(bad) |->
                ExcelValidationError(row_number, half, bad[i], "must be an integer")]
        coerced == [f \in DOMAIN raw |->
                       IF f \in IntFieldSet /\ ~is_empty_value(raw[f]) /\ CoerceInt(raw[f]) # <<>>
                       THEN IntV(CoerceInt(raw[f])[1]) ELSE raw[f]]
    IN  IF errors # <<>> THEN [model |-> <<>>, errors |-> errors]
        ELSE IF HalfInput(coerced) # <<>> THEN [model |-> HalfInput(coerced), errors |-> <<>>]
        ELSE [model |-> <<>>,
              errors |-> <<ExcelValidationError(row_number, half, "__model__", "ValidationError")>>]

----------------------------------------------------------------------------
(* db.py: the lookups and the batched existence query *)

Roles == [GROUP_COMMANDER |-> "GROUP_COMMANDER", GROUP_RESPONSIBLE |-> "GROUP_RESPONSIBLE"]

\* DB.get_participant_id: the id when exactly one row has the chest number
get_participant_id(participants, chest_number) ==
    LET rows == {p \in participants : p.chest_number = chest_number}
    IN  IF Cardinality(rows) = 1 THEN <<(CHOOSE p \in rows : TRUE).id>> ELSE <<>>

\* DB.get_assessoringroup: (myun_id, assessor_id) when exactly one row matches
get_assessoringroup(groups, group_id, stg, role) ==
    LET rows == {g \in groups : g.group_id = group_id /\ g.stage = stg /\ g.role = role}
    IN  IF Cardinality(rows) = 1
        THEN LET r == CHOOSE g \in rows : TRUE IN <<<<r.myun_id, r.assessor_id>>>>
        ELSE <<>>

NaturalKey(r) == <<r.stage, r.assessor_id, r.soldier_id>>

SeqRange(q) == {q[i] : i \in 1..Len(q)}

\* DB.find_existing_evaluation_keys: the keys of the rows of api_assessorevaluation
\* joined with the given keys and with api_participant on the soldier
find_existing_evaluation_keys(evaluations, participants, keys) ==
    IF keys = <<>> THEN {}
    ELSE LET joined == {e \in SeqRange(evaluations) :
                           /\ \E k \in SeqRange(keys) : NaturalKey(k) = NaturalKey(e)
                           /\ \E p \in participants : p.id = e.soldier_id}
         IN  {NaturalKey(e) : e \in joined}

----------------------------------------------------------------------------
(* validators.py: the duplicate detector *)

\* _insert_keys: the DuplicationValidation of a candidate
InsertKeys(ev) ==
    [stage |-> ev.stage, assessor_id |-> ev.assessor_id, soldier_id |-> ev.soldier_id,
     group_id |-> ev.group_id, chest_number |-> ev.chest_number,
     candidate_name |-> ev.candidate_name, assessor_name |-> ev.assessor_name,
     grade |-> ev.grade, comment |-> ev.comment,
     row_number |-> ev.row_number, half_index |-> ev.half_index]

\* the loop of find_duplicate_keys_in_excel from candidate i on. seen is the dict
\* seen as a sequence of [key, first]; dmap is duplicates_map in insertion order,
\* a sequence of [key, entries]
RECURSIVE ScanExcel(_, _, _, _)
ScanExcel(evs, i, seen, dmap) ==
    IF i > Len(evs) THEN dmap
    ELSE LET ev == evs[i]
             key == NaturalKey(ev)
             current == InsertKeys(ev)
         IN  IF \E j \in 1..Len(seen) : seen[j].key = key
             THEN LET first == (CHOOSE j \in 1..Len(seen) : seen[j].key = key)
                      d2 == IF \E j \in 1..Len(dmap) : dmap[j].key = key
                            THEN dmap
                            ELSE Append(dmap, [key |-> key, entries |-> <<seen[first].first>>])
                      d3 == [j \in 1..Len(d2) |->
                                IF d2[j].key = key
                                THEN [d2[j] EXCEPT !.entries = Append(@, current)]
                                ELSE d2[j]]
                  IN  ScanExcel(evs, i + 1, seen, d3)
             ELSE ScanExcel(evs, i + 1, Append(seen, [key |-> key, first |-> current]), dmap)

RECURSIVE Flatten(_)
Flatten(groups) == IF groups = <<>> THEN <<>> ELSE Head(groups).entries \o Flatten(Tail(groups))

\* a detector that flags the second and later occurrences only
find_duplicates_later_only(evs) ==
    LET dmap == ScanExcel(evs, 1, <<>>, <<>>)
    IN  Flatten([j \in 1..Len(dmap) |-> [dmap[j] EXCEPT !.entries = Tail(@)]])

find_duplicate_keys_in_excel(evs) == Flatten(ScanExcel(evs, 1, <<>>, <<>>))

\* a batch-vs-store check that flags the first stored candidate only
find_duplicate_keys_in_db_first_only(evaluations, participants, evs) ==
    LET existing_key_set == find_existing_evaluation_keys(evaluations, participants, evs)
        hit == SelectSeq(evs, LAMBDA ev : NaturalKey(ev) \in existing_key_set)
    IN  IF hit = <<>> THEN <<>> ELSE <<InsertKeys(Head(hit))>>

find_duplicate_keys_in_db(evaluations, participants, evs) ==
    LET inserts_keys == [i \in 1..Len(evs) |-> InsertKeys(evs[i])]
        existing_key_set ==
            find_existing_evaluation_keys(evaluations, participants, inserts_keys)
        hit == SelectSeq(evs, LAMBDA ev : NaturalKey(ev) \in existing_key_set)
    IN  IF inserts_keys = <<>> THEN <<>> ELSE [i \in 1..Len(hit) |-> InsertKeys(hit[i])]

----------------------------------------------------------------------------
(* main.py: the reference resolver and _collect_inserts *)

\* a resolver that returns at the first failed lookup
ResolveEvaluationIds_first_failure_only(participants, groups, half, stg, row_number, half_index) ==
    LET soldier == get_participant_id(participants, half.chest_number)
        role == IF half_index = 1 THEN Roles.GROUP_COMMANDER ELSE Roles.GROUP_RESPONSIBLE
        sql_result == get_assessoringroup(groups, half.group_id, stg, role)
    IN  IF soldier = <<>>
        THEN [ids |-> <<>>,
              errors |-> <<ExcelValidationError(row_number, half_index, "chest_number",
                                                "participant not found or not unique")>>]
        ELSE IF sql_result = <<>>
        THEN [ids |-> <<>>,
              errors |-> <<ExcelValidationError(row_number, half_index, "group_id/stage",
                                                "assessoringroup not found or not unique")>>]
        ELSE [ids |-> <<<<soldier[1], sql_result[1][1], sql_result[1][2]>>>>, errors |-> <<>>]

\* _resolve_evaluation_ids: [ids |-> Optional[<<soldier_id, myun_id, assessor_id>>], errors]
ResolveEvaluationIds(participants, groups, half, stg, row_number, half_index) ==
    LET soldier == get_participant_id(participants, half.chest_number)
        e1 == IF soldier = <<>>
              THEN <<ExcelValidationError(row_number, half_index, "chest_number",
                                          "participant not found or not unique")>>
              ELSE <<>>
        role == IF half_index = 1 THEN Roles.GROUP_COMMANDER ELSE Roles.GROUP_RESPONSIBLE
        sql_result == get_assessoringroup(groups, half.group_id, stg, role)
        e2 == IF sql_result = <<>>
              THEN <<ExcelValidationError(row_number, half_index, "group_id/stage",
                                          "assessoringroup not found or not unique")>>
              ELSE <<>>
        errors == e1 \o e2
    IN  IF errors # <<>> THEN [ids |-> <<>>, errors |-> errors]
        ELSE [ids |-> <<<<soldier[1], sql_result[1][1], sql_result[1][2]>>>>, errors |-> <<>>]

\* models/evaluation_insert.py: the fields of the dataclass, none with a default
EvaluationInsertFields ==
    {"row_number", "half_index", "group_id", "chest_number", "candidate_name",
     "assessor_name", "grade", "comment", "stage", "assessor_id", "myun_id", "soldier_id"}

\* EvaluationInsert(**kw): the record, or <<>> for the TypeError the generated
\* __init__ raises when a field without default is not given
EvaluationInsert(kw) == IF DOMAIN kw = EvaluationInsertFields THEN <<kw>> ELSE <<>>

\* the keyword arguments _collect_inserts passes (main.py 199-206)
CollectKwargs(half_model, stg, ids) ==
    [grade |-> half_model.grade, comment |-> half_model.comment, stage |-> stg,
     assessor_id |-> ids[3], myun_id |-> ids[2], soldier_id |-> ids[1]]

\* the loop of _collect_inserts from half i on:
\* [inserts, all_errors, raised]; raised is "" or the exception that ended the loop
RECURSIVE CollectFrom(_, _, _, _, _, _, _)
CollectFrom(participants, groups, hs, stg, i, ins, errs) ==
    IF i > Len(hs) THEN [inserts |-> ins, all_errors |-> errs, raised |-> ""]
    ELSE LET row_number == hs[i][1]
             half_index == hs[i][2]
             v == validate_half(hs[i][3], row_number, half_index)
         IN  IF v.errors # <<>>
             THEN CollectFrom(participants, groups, hs, stg, i + 1, ins, errs \o v.errors)
             ELSE LET r == ResolveEvaluationIds(participants, groups, v.model[1], stg,
                                                row_number, half_index)
                  IN  IF r.errors # <<>>
                      THEN CollectFrom(participants, groups, hs, stg, i + 1, ins,
                                       errs \o r.errors)
                      ELSE LET ev == EvaluationInsert(CollectKwargs(v.model[1], stg, r.ids[1]))
                           IN  IF ev = <<>>
                               THEN [inserts |-> ins, all_errors |-> errs,
                                     raised |-> "TypeError"]
                               ELSE CollectFrom(participants, groups, hs, stg, i + 1,
                                                Append(ins, ev[1]), errs)

CollectInsertsOf(participants, groups, hs, stg) ==
    CollectFrom(participants, groups, hs, stg, 1, <<>>, <<>>)

----------------------------------------------------------------------------
(* main.py: the insert executor *)

\* the row the statement of _build_insert_sql writes
EvaluationRow(ev) ==
    [grade |-> ev.grade, comment |-> ev.comment, stage |-> ev.stage,
     assessor_id |-> ev.assessor_id, myun_id |-> ev.myun_id, soldier_id |-> ev.soldier_id]

\* an INSERT without the ON CONFLICT clause on a table without the unique key
InsertAlways(evaluations, ev) ==
    [table |-> Append(evaluations, EvaluationRow(ev)), rowcount |-> 1]

\* INSERT ... ON CONFLICT DO NOTHING RETURNING 1 on api_assessorevaluation, whose
\* unique key is (stage, assessor_id, soldier_id): [table, rowcount]
InsertOnConflictDoNothing(evaluations, ev) ==
    IF \E i \in 1..Len(evaluations) : NaturalKey(evaluations[i]) = NaturalKey(ev)
    THEN [table |-> evaluations, rowcount |-> 0]
    ELSE [table |-> Append(evaluations, EvaluationRow(ev)), rowcount |-> 1]

\* a log row that reports every candidate as inserted
LogRowAlwaysInserted(ev, status) ==
    [grade |-> ev.grade, comment |-> ev.comment, stage |-> ev.stage,
     assessor_id |-> ev.assessor_id, myun_id |-> ev.myun_id, soldier_id |-> ev.soldier_id,
     status |-> "inserted"]

\* the row _execute_inserts_and_log writes to the log for a candidate
LogRow(ev, status) ==
    [grade |-> ev.grade, comment |-> ev.comment, stage |-> ev.stage,
     assessor_id |-> ev.assessor_id, myun_id |-> ev.myun_id, soldier_id |-> ev.soldier_id,
     status |-> status]

\* the loop of _execute_inserts_and_log over candidates i..last
RECURSIVE ExecuteFrom(_, _, _, _)
ExecuteFrom(evs, i, last, st) ==
    IF i > last THEN st
    ELSE LET r == InsertOnConflictDoNothing(st.table, evs[i])
             hit == r.rowcount > 0
         IN  ExecuteFrom(evs, i + 1, last,
                         [table |-> r.table,
                          inserted_rows |-> st.inserted_rows + (IF hit THEN 1 ELSE 0),
                          skipped_rows |-> st.skipped_rows + (IF hit THEN 0 ELSE 1),
                          log |-> Append(st.log,
                                         LogRow(evs[i], IF hit THEN "inserted" ELSE "skipped")),
                          executes |-> st.executes + 1])

----------------------------------------------------------------------------
(* excel_reader.py: the row splitter *)

half2_offset == 15
\* the first data row: row 1 is the header
start == 2

\* _slice_to_half: the six keys over the values, None for an index past the end
slice_to_half(values) ==
    [k \in SeqRange(HalfKeys) |->
        LET i == CHOOSE j \in 1..Len(HalfKeys) : HalfKeys[j] = k
        IN  IF Len(values) > i - 1 THEN values[i] ELSE None]

SixNones == [i \in 1..6 |-> None]

\* _row_to_halves: <<half1, half2>>
row_to_halves(row_values) ==
    LET a_f == IF Len(row_values) >= 6 THEN SubSeq(row_values, 1, 6) ELSE SixNones
        end == half2_offset + 6
        second == IF Len(row_values) >= end
                  THEN SubSeq(row_values, half2_offset + 1, end) ELSE SixNones
    IN  <<slice_to_half(a_f), slice_to_half(second)>>

\* the loop of iter_excel_halves from row k of the rows on; row k has number i
RECURSIVE IterFrom(_, _, _)
IterFrom(rows, k, i) ==
    IF k > Len(rows) THEN <<>>
    ELSE LET hs == row_to_halves(rows[k])
         IN  (IF ~is_half_empty(hs[1]) THEN <<<<i, 1, hs[1]>>>> ELSE <<>>)
             \o (IF ~is_half_empty(hs[2]) THEN <<<<i, 2, hs[2]>>>> ELSE <<>>)
             \o IterFrom(rows, k + 1, i + 1)

\* a splitter that stops reading a row once its first half is empty
iter_excel_halves_skip_row(rows) ==
    LET skip[k \in 1..(Len(rows) + 1)] ==
            IF k > Len(rows) THEN <<>>
            ELSE LET hs == row_to_halves(rows[k])
                 IN  (IF ~is_half_empty(hs[1])
                      THEN <<<<start + k - 1, 1, hs[1]>>>>
                           \o (IF ~is_half_empty(hs[2])
                               THEN <<<<start + k - 1, 2, hs[2]>>>> ELSE <<>>)
                      ELSE <<>>)
                     \o skip[k + 1]
    IN  skip[1]

\* list(iter_excel_halves(path)) on a worksheet with these data rows
iter_excel_halves(rows) == IterFrom(rows, 1, start)

----------------------------------------------------------------------------
(* Bounds and the inputs of the model *)

MaxHalves == 2      \* emitted halves of a spreadsheet
MaxInserts == 3     \* candidates handed to the duplicate detector and the executor
MaxRuns == 2        \* executor calls on the same list
MaxRows == 2        \* data rows of a worksheet

Chars(str) ==
    CASE str = "ok" -> <<"o", "k">>
      [] str = "blank" -> <<" ", " ">>
      [] str = "10" -> <<"1", "0">>
      [] str = "10.0" -> <<"1", "0", ".", "0">>
      [] str = "10.5" -> <<"1", "0", ".", "5">>
      [] str = " 7 " -> <<" ", "7", " ">>
      [] str = "-3" -> <<"-", "3">>
      [] str = "abc" -> <<"a", "b", "c">>

\* the values of a numeric cell
NumberCells ==
    {None, StrV(Chars("blank")), IntV(5), FloatV(420), FloatV(105), FloatV(-105),
     StrV(Chars("10")), StrV(Chars("10.0")), StrV(Chars("10.5")), StrV(Chars(" 7 ")),
     StrV(Chars("-3")), StrV(Chars("abc")), DateV}
CommentCells == {None, StrV(Chars("blank")), StrV(Chars("ok")), IntV(5)}
NameCells == {None, StrV(Chars("abc"))}

RawHalf(g, c, cn, an, gr, co) ==
    [group_id |-> g, chest_number |-> c, candidate_name |-> cn, assessor_name |-> an,
     grade |-> gr, comment |-> co]

\* the halves validate_half is checked on
ValidatorHalves ==
    {RawHalf(g, c, cn, None, gr, co) :
        g \in NumberCells, c \in NumberCells, cn \in NameCells, gr \in NumberCells,
        co \in CommentCells}

\* the halves of the spreadsheets main is run on
SheetHalves ==
    {RawHalf(g, c, None, None, gr, co) :
        g \in {IntV(5), None}, c \in {IntV(100), IntV(101)},
        gr \in {IntV(8), StrV(Chars("abc"))}, co \in {StrV(Chars("ok"))}}

\* the i-th emitted half of a sheet whose halves are all filled from half `first` on
RowOf(i, first) == 2 + ((i - 1 + first) \div 2)
HalfIndexOf(i, first) == ((i - 1 + first) % 2) + 1

SeqsUpTo(S, n) == UNION {[1..k -> S] : k \in 0..n}

Batches ==
    {[i \in 1..Len(q) |-> <<RowOf(i, first), HalfIndexOf(i, first), q[i]>>] :
        q \in SeqsUpTo(SheetHalves, MaxHalves), first \in {0, 1}}

Participant(id, chest_number) == [id |-> id, chest_number |-> chest_number]
ParticipantTables ==
    {{Participant(7, 100), Participant(8, 101)},
     {Participant(7, 100), Participant(8, 100)},
     {Participant(7, 100)}}

AssessorInGroup(g, stg, role, myun, assessor) ==
    [group_id |-> g, stage |-> stg, role |-> role, myun_id |-> myun, assessor_id |-> assessor]
GroupTables ==
    {{AssessorInGroup(5, 1, Roles.GROUP_COMMANDER, 2, 9),
      AssessorInGroup(5, 1, Roles.GROUP_RESPONSIBLE, 2, 10)},
     {AssessorInGroup(5, 1, Roles.GROUP_COMMANDER, 2, 9)},
     {AssessorInGroup(5, 1, Roles.GROUP_COMMANDER, 2, 9),
      AssessorInGroup(5, 1, Roles.GROUP_COMMANDER, 2, 10),
      AssessorInGroup(5, 1, Roles.GROUP_RESPONSIBLE, 2, 10)}}

Stored(stg, assessor, soldier) ==
    [grade |-> 6, comment |-> Chars("ok"), stage |-> stg, assessor_id |-> assessor,
     myun_id |-> 2, soldier_id |-> soldier]
\* contents of api_assessorevaluation: the key is unique and every soldier is a participant
StoredTables ==
    {<<>>, <<Stored(1, 9, 7)>>, <<Stored(2, 9, 7)>>, <<Stored(1, 9, 7), Stored(1, 10, 8)>>}

\* the i-th candidate of a list
Candidate(i, assessor, soldier, grade) ==
    [row_number |-> RowOf(i, 0), half_index |-> HalfIndexOf(i, 0), group_id |-> 5,
     chest_number |-> IF soldier = 7 THEN 100 ELSE 101, candidate_name |-> None,
     assessor_name |-> None, grade |-> grade, comment |-> Chars("ok"), stage |-> 1,
     assessor_id |-> assessor, myun_id |-> 2, soldier_id |-> soldier]
CandidateChoices == {9, 10} \X {7, 8} \X {8, 9}
CandidateLists ==
    {[i \in 1..Len(q) |-> Candidate(i, q[i][1], q[i][2], q[i][3])] :
        q \in SeqsUpTo(CandidateChoices, MaxInserts)}

ErrorLists ==
    {<<>>, <<ExcelValidationError(9, 1, "grade", "missing required field")>>}

\* the six cells of a half of a row: nothing, blanks, one cell, all the required cells
HalfCells ==
    {[i \in 1..6 |-> None],
     <<StrV(Chars("blank")), None, None, StrV(Chars("blank")), None, None>>,
     <<IntV(5), None, None, None, None, None>>,
     <<IntV(5), IntV(100), None, None, IntV(8), StrV(Chars("ok"))>>}
\* the widths of a row: iter_rows pads a row to the sheet's dimension, or to its
\* last cell when the sheet records none
RowWidths == {2, 6, 18, half2_offset + 6}
SheetRows ==
    {SubSeq(a \o [i \in 1..(half2_offset - 6) |-> None] \o b, 1, w) :
        a \in HalfCells, b \in HalfCells, w \in RowWidths}
Sheets == SeqsUpTo(SheetRows, MaxRows)

\* validated halves and the arguments of _resolve_evaluation_ids
ResolverHalves ==
    {[group_id |-> g, chest_number |-> c, candidate_name |-> None, assessor_name |-> None,
      grade |-> 8, comment |-> Chars("ok")] : g \in {5, 6}, c \in {100, 101, 102}}
ResolverArgs ==
    {[half |-> h, half_index |-> x, row_number |-> r] :
        h \in ResolverHalves, x \in {1, 2}, r \in {2, 3}}

NoCalls == [find_db |-> 0, execute |-> 0, commit |-> 0, rollback |-> 0]
NoCounts == [inserted_rows |-> 0, skipped_rows |-> 0]

----------------------------------------------------------------------------
(* The run of main *)

IdleMain ==
    /\ duplicate_inserts_in_excel = <<>>
    /\ duplicate_inserts_in_excel_and_db = <<>>
    /\ errors_csv = <<>>
    /\ duplications_csv = <<>>
    /\ exec_log = <<>>
    /\ counts = NoCounts
    /\ outcome = "running"
    /\ calls = NoCalls
    /\ runs = <<>>
    /\ raw_in = <<>>
    /\ vresult = <<>>

Idle ==
    /\ IdleMain
    /\ sheet = <<>>
    /\ resolve_in = <<>>
    /\ resolved = <<>>

\* main after construction of DB(args.dsn), before _collect_inserts
Init ==
    /\ pc = "collect"
    /\ stage = 1
    /\ halves \in Batches
    /\ api_participant \in ParticipantTables
    /\ api_assessoringroup \in GroupTables
    /\ committed \in {<<>>, <<Stored(1, 9, 7)>>}
    /\ table = committed
    /\ store_before = committed
    /\ inserts = <<>>
    /\ all_errors = <<>>
    /\ Idle

\* main.py 32: _collect_inserts; an exception it raises ends main
CollectInserts ==
    /\ pc = "collect"
    /\ LET r == CollectInsertsOf(api_participant, api_assessoringroup, halves, stage)
       IN  IF r.raised # ""
           THEN /\ pc' = "done"
                /\ outcome' = r.raised
                /\ UNCHANGED <<inserts, all_errors>>
           ELSE /\ pc' = "dup_excel"
                /\ inserts' = r.inserts
                /\ all_errors' = r.all_errors
                /\ UNCHANGED outcome
    /\ UNCHANGED <<sheet, resolve_in, resolved, stage, store_before, halves, api_participant, api_assessoringroup, table, committed,
                   duplicate_inserts_in_excel, duplicate_inserts_in_excel_and_db,
                   errors_csv, duplications_csv, exec_log, counts, calls, runs, raw_in,
                   vresult>>

\* the intra-batch check without the assert: the duplicates are saved and main goes on
FindDuplicatesInExcelNoHalt ==
    /\ pc = "dup_excel"
    /\ duplicate_inserts_in_excel' = find_duplicate_keys_in_excel(inserts)
    /\ duplications_csv' = duplicate_inserts_in_excel'
    /\ pc' = "dup_db"
    /\ UNCHANGED <<sheet, resolve_in, resolved, stage, store_before, halves, api_participant, api_assessoringroup, table,
                   committed, inserts, all_errors, duplicate_inserts_in_excel_and_db,
                   errors_csv, exec_log, counts, outcome, calls, runs, raw_in, vresult>>

\* main.py 34-37: the intra-batch check; the assert ends main when it flags any
FindDuplicatesInExcel ==
    /\ pc = "dup_excel"
    /\ duplicate_inserts_in_excel' = find_duplicate_keys_in_excel(inserts)
    /\ IF Len(duplicate_inserts_in_excel') > 0
       THEN /\ duplications_csv' = duplicate_inserts_in_excel'
            /\ outcome' = "AssertionError"
            /\ pc' = "done"
       ELSE /\ pc' = "dup_db"
            /\ UNCHANGED <<duplications_csv, outcome>>
    /\ UNCHANGED <<sheet, resolve_in, resolved, stage, store_before, halves, api_participant, api_assessoringroup, table, committed,
                   inserts, all_errors, duplicate_inserts_in_excel_and_db, errors_csv,
                   exec_log, counts, calls, runs, raw_in, vresult>>

\* main.py 39-42: the batch-vs-store check; the assert ends main when it flags any
FindDuplicatesInDb ==
    /\ pc = "dup_db"
    /\ duplicate_inserts_in_excel_and_db' =
           find_duplicate_keys_in_db(table, api_participant, inserts)
    /\ calls' = [calls EXCEPT !.find_db = @ + 1]
    /\ IF Len(duplicate_inserts_in_excel_and_db') > 0
       THEN /\ duplications_csv' = duplicate_inserts_in_excel_and_db'
            /\ outcome' = "AssertionError"
            /\ pc' = "done"
       ELSE /\ pc' = "errors"
            /\ UNCHANGED <<duplications_csv, outcome>>
    /\ UNCHANGED <<sheet, resolve_in, resolved, stage, store_before, halves, api_participant, api_assessoringroup, table, committed,
                   inserts, all_errors, duplicate_inserts_in_excel, errors_csv, exec_log,
                   counts, runs, raw_in, vresult>>

\* main.py 44-48: the validation errors are saved and logged, and main goes on
SaveValidationErrors ==
    /\ pc = "errors"
    /\ errors_csv' = IF all_errors # <<>> THEN all_errors ELSE errors_csv
    /\ pc' = "execute"
    /\ UNCHANGED <<sheet, resolve_in, resolved, stage, store_before, halves, api_participant, api_assessoringroup, table, committed,
                   inserts, all_errors, duplicate_inserts_in_excel,
                   duplicate_inserts_in_excel_and_db, duplications_csv, exec_log, counts,
                   outcome, calls, runs, raw_in, vresult>>

\* main.py 51-53 and 212-251: _execute_inserts_and_log. It completes (fail = -1),
\* raises before the loop (fail = 0: the log file or the connection cannot be
\* opened) or raises in the fail-th cur.execute
ExecuteInsertsAndLog ==
    /\ pc = "execute"
    /\ \E fail \in (-1)..Len(inserts) :
         LET last == IF fail = -1 THEN Len(inserts) ELSE IF fail = 0 THEN 0 ELSE fail - 1
             st == ExecuteFrom(inserts, 1, last,
                               [table |-> table, inserted_rows |-> 0, skipped_rows |-> 0,
                                log |-> <<>>, executes |-> 0])
         IN  /\ table' = st.table
             /\ exec_log' = st.log
             /\ counts' = [inserted_rows |-> st.inserted_rows,
                           skipped_rows |-> st.skipped_rows]
             /\ calls' = [calls EXCEPT
                            !.execute = @ + st.executes + (IF fail >= 1 THEN 1 ELSE 0)]
             /\ pc' = IF fail = -1 THEN "commit" ELSE "except"
    /\ UNCHANGED <<sheet, resolve_in, resolved, stage, store_before, halves, api_participant, api_assessoringroup, committed, inserts,
                   all_errors, duplicate_inserts_in_excel,
                   duplicate_inserts_in_excel_and_db, errors_csv, duplications_csv,
                   outcome, runs, raw_in, vresult>>

\* main.py 54-60 and db.py 47-49: commit, then main falls off its end
Commit ==
    /\ pc = "commit"
    /\ committed' = table
    /\ calls' = [calls EXCEPT !.commit = @ + 1]
    /\ runs' = Append(runs, [inserted |-> counts.inserted_rows,
                             skipped |-> counts.skipped_rows, table |-> table])
    /\ outcome' = "None"
    /\ pc' = "done"
    /\ UNCHANGED <<sheet, resolve_in, resolved, stage, store_before, halves, api_participant, api_assessoringroup, table, inserts,
                   all_errors, duplicate_inserts_in_excel,
                   duplicate_inserts_in_excel_and_db, errors_csv, duplications_csv,
                   exec_log, counts, raw_in, vresult>>

\* an except branch that returns 3 and leaves the inserted rows in place
RollbackKeepsRows ==
    /\ pc = "except"
    /\ calls' = [calls EXCEPT !.rollback = @ + 1]
    /\ outcome' = "3"
    /\ pc' = "done"
    /\ UNCHANGED <<sheet, resolve_in, resolved, stage, store_before, halves, api_participant, api_assessoringroup, table,
                   committed, inserts, all_errors, duplicate_inserts_in_excel,
                   duplicate_inserts_in_excel_and_db, errors_csv, duplications_csv,
                   exec_log, counts, runs, raw_in, vresult>>

\* main.py 61-64 and db.py 51-53: rollback and return 3
Rollback ==
    /\ pc = "except"
    /\ table' = committed
    /\ calls' = [calls EXCEPT !.rollback = @ + 1]
    /\ outcome' = "3"
    /\ pc' = "done"
    /\ UNCHANGED <<sheet, resolve_in, resolved, stage, store_before, halves, api_participant, api_assessoringroup, committed, inserts,
                   all_errors, duplicate_inserts_in_excel,
                   duplicate_inserts_in_excel_and_db, errors_csv, duplications_csv,
                   exec_log, counts, runs, raw_in, vresult>>

Next ==
    \/ CollectInserts
    \/ FindDuplicatesInExcel
    \/ FindDuplicatesInDb
    \/ SaveValidationErrors
    \/ ExecuteInsertsAndLog
    \/ Commit
    \/ Rollback

Spec == Init /\ [][Next]_vars

----------------------------------------------------------------------------
(* main from line 34 on, for every value of (inserts, all_errors) that the   *)
(* declared return type of _collect_inserts admits                           *)

InitTail ==
    /\ pc = "dup_excel"
    /\ stage = 1
    /\ halves = <<>>
    /\ api_participant = {Participant(7, 100), Participant(8, 101)}
    /\ api_assessoringroup = {}
    /\ committed \in StoredTables
    /\ table = committed
    /\ store_before = committed
    /\ inserts \in CandidateLists
    /\ all_errors \in ErrorLists
    /\ Idle

NextTail ==
    \/ FindDuplicatesInExcel
    \/ FindDuplicatesInDb
    \/ SaveValidationErrors
    \/ ExecuteInsertsAndLog
    \/ Commit
    \/ Rollback

SpecTail == InitTail /\ [][NextTail]_vars

----------------------------------------------------------------------------
(* The insert executor called, and committed, MaxRuns times on one list *)

InitExecutor ==
    /\ pc = "execute"
    /\ stage = 1
    /\ halves = <<>>
    /\ api_participant = {Participant(7, 100), Participant(8, 101)}
    /\ api_assessoringroup = {}
    /\ committed \in StoredTables
    /\ table = committed
    /\ store_before = committed
    /\ inserts \in CandidateLists
    /\ all_errors = <<>>
    /\ Idle

\* the caller runs _execute_inserts_and_log and commit once more on the same list
RunAgain ==
    /\ pc = "done"
    /\ outcome = "None"
    /\ Len(runs) < MaxRuns
    /\ pc' = "execute"
    /\ outcome' = "running"
    /\ UNCHANGED <<sheet, resolve_in, resolved, stage, store_before, halves, api_participant, api_assessoringroup, table, committed,
                   inserts, all_errors, duplicate_inserts_in_excel,
                   duplicate_inserts_in_excel_and_db, errors_csv, duplications_csv,
                   exec_log, counts, calls, runs, raw_in, vresult>>

NextExecutor ==
    \/ ExecuteInsertsAndLog
    \/ Commit
    \/ Rollback
    \/ RunAgain

SpecExecutor == InitExecutor /\ [][NextExecutor]_vars

----------------------------------------------------------------------------
(* validate_half on one raw half *)

InitValidate ==
    /\ pc = "validate"
    /\ stage = 1
    /\ halves = <<>>
    /\ api_participant = {}
    /\ api_assessoringroup = {}
    /\ committed = <<>>
    /\ table = <<>>
    /\ store_before = <<>>
    /\ inserts = <<>>
    /\ all_errors = <<>>
    /\ duplicate_inserts_in_excel = <<>>
    /\ duplicate_inserts_in_excel_and_db = <<>>
    /\ errors_csv = <<>>
    /\ duplications_csv = <<>>
    /\ exec_log = <<>>
    /\ counts = NoCounts
    /\ outcome = "running"
    /\ calls = NoCalls
    /\ runs = <<>>
    /\ \E raw \in ValidatorHalves, half \in {1, 2} :
         /\ ~is_half_empty(raw)
         /\ raw_in = <<[raw |-> raw, row_number |-> 2, half |-> half]>>
    /\ vresult = <<>>
    /\ sheet = <<>>
    /\ resolve_in = <<>>
    /\ resolved = <<>>

\* validators.py 28-78
ValidateHalf ==
    /\ pc = "validate"
    /\ vresult' = <<validate_half(raw_in[1].raw, raw_in[1].row_number, raw_in[1].half)>>
    /\ pc' = "done"
    /\ UNCHANGED <<sheet, resolve_in, resolved, stage, store_before, halves, api_participant, api_assessoringroup, table, committed,
                   inserts, all_errors, duplicate_inserts_in_excel,
                   duplicate_inserts_in_excel_and_db, errors_csv, duplications_csv,
                   exec_log, counts, outcome, calls, runs, raw_in>>

NextValidate == ValidateHalf

SpecValidate == InitValidate /\ [][NextValidate]_vars

----------------------------------------------------------------------------
(* iter_excel_halves on one worksheet *)

InitSplit ==
    /\ pc = "split"
    /\ stage = 1
    /\ sheet \in Sheets
    /\ halves = <<>>
    /\ api_participant = {}
    /\ api_assessoringroup = {}
    /\ committed = <<>>
    /\ table = <<>>
    /\ store_before = <<>>
    /\ inserts = <<>>
    /\ all_errors = <<>>
    /\ IdleMain
    /\ resolve_in = <<>>
    /\ resolved = <<>>

\* excel_reader.py 27-44, consumed to the end
IterExcelHalves ==
    /\ pc = "split"
    /\ halves' = iter_excel_halves(sheet)
    /\ pc' = "done"
    /\ UNCHANGED <<sheet, resolve_in, resolved, stage, store_before, api_participant,
                   api_assessoringroup, table, committed,
                   inserts, all_errors, duplicate_inserts_in_excel,
                   duplicate_inserts_in_excel_and_db, errors_csv, duplications_csv,
                   exec_log, counts, outcome, calls, runs, raw_in, vresult>>

NextSplit == IterExcelHalves

SpecSplit == InitSplit /\ [][NextSplit]_vars

----------------------------------------------------------------------------
(* _resolve_evaluation_ids on one validated half *)

InitResolve ==
    /\ pc = "resolve"
    /\ stage \in {1, 2}
    /\ sheet = <<>>
    /\ halves = <<>>
    /\ api_participant \in ParticipantTables
    /\ api_assessoringroup \in GroupTables
    /\ committed = <<>>
    /\ table = <<>>
    /\ store_before = <<>>
    /\ inserts = <<>>
    /\ all_errors = <<>>
    /\ IdleMain
    /\ \E a \in ResolverArgs : resolve_in = <<a>>
    /\ resolved = <<>>

\* main.py 110-159
ResolveIds ==
    /\ pc = "resolve"
    /\ resolved' = <<ResolveEvaluationIds(api_participant, api_assessoringroup,
                                          resolve_in[1].half, stage,
                                          resolve_in[1].row_number, resolve_in[1].half_index)>>
    /\ pc' = "done"
    /\ UNCHANGED <<sheet, resolve_in, stage, store_before, halves, api_participant,
                   api_assessoringroup, table, committed,
                   inserts, all_errors, duplicate_inserts_in_excel,
                   duplicate_inserts_in_excel_and_db, errors_csv, duplications_csv,
                   exec_log, counts, outcome, calls, runs, raw_in, vresult>>

NextResolve == ResolveIds

SpecResolve == InitResolve /\ [][NextResolve]_vars

----------------------------------------------------------------------------
(* Properties *)

KeysOf(evaluations) == {NaturalKey(evaluations[i]) : i \in 1..Len(evaluations)}
Occurrences(q, x) == Cardinality({i \in 1..Len(q) : q[i] = x})
KeyCount(evs, key) == Cardinality({i \in 1..Len(evs) : NaturalKey(evs[i]) = key})
DistinctKeys(evs) == \A i \in 1..Len(evs) : KeyCount(evs, NaturalKey(evs[i])) = 1
\* an insert attempt raised: a cur.execute was issued that wrote no log row
InsertRaised == calls.execute > Len(exec_log)

\* C1: a finished run of main that collected a validation or resolution error
\* attempted no insert, issued no commit and left the evaluation table as it was
C1_ErrorsBlockPersistence ==
    (pc = "done" /\ all_errors # <<>>) =>
        /\ calls.execute = 0
        /\ calls.commit = 0
        /\ committed = store_before

\* C2: when find_duplicate_keys_in_excel returns a non-empty list the run has
\* halted there: find_duplicate_keys_in_db was not invoked, no insert was
\* attempted, no commit was issued
C2_ExcelDuplicatesHalt ==
    duplicate_inserts_in_excel # <<>> =>
        /\ pc = "done"
        /\ outcome = "AssertionError"
        /\ calls.find_db = 0
        /\ calls.execute = 0
        /\ calls.commit = 0
        /\ committed = store_before

C2_Witness ==
    /\ pc = "done"
    /\ Len(duplicate_inserts_in_excel) >= 2
    /\ \E i \in 1..Len(inserts) : NaturalKey(inserts[i]) \in KeysOf(store_before)

C4_AllOrNothing ==
    /\ calls.commit > 0 =>
           /\ ~InsertRaised
           /\ Len(exec_log) = Len(inserts)
           /\ calls.rollback = 0
    /\ InsertRaised =>
           /\ calls.commit = 0
           /\ committed = store_before
           /\ pc = "done" =>
                  /\ calls.rollback = 1
                  /\ outcome = "3"
                  /\ table = store_before

C4_Witness ==
    /\ pc = "done"
    /\ InsertRaised
    /\ counts.inserted_rows >= 2

\* C5: find_duplicate_keys_in_excel returns exactly the candidates whose natural
\* key occurs more than once in the list, the first occurrence included, each
\* once and with its own audit payload; a candidate with a unique key is not flagged
C5_ExcelDuplicatesExact ==
    pc # "dup_excel" =>
        LET flagged == SelectSeq(inserts, LAMBDA ev : KeyCount(inserts, NaturalKey(ev)) > 1)
        IN  /\ Len(duplicate_inserts_in_excel) = Len(flagged)
            /\ \A i \in 1..Len(inserts) :
                   Occurrences(duplicate_inserts_in_excel, InsertKeys(inserts[i])) =
                       IF KeyCount(inserts, NaturalKey(inserts[i])) > 1 THEN 1 ELSE 0

C5_Witness ==
    /\ pc = "done"
    /\ Len(inserts) = 3
    /\ Len(duplicate_inserts_in_excel) = 2
    /\ duplicate_inserts_in_excel[1].grade # duplicate_inserts_in_excel[2].grade
    /\ duplicate_inserts_in_excel[1].row_number = 2
    /\ duplicate_inserts_in_excel[1].half_index = 1

\* C6: for candidates with pairwise distinct keys, none in the store, the first
\* executor run inserts all and skips none, the second inserts none and skips
\* all, and the store after the second run is the store after the first
C6_ExecutorIdempotent ==
    (DistinctKeys(inserts) /\ \A i \in 1..Len(inserts) :
                                 NaturalKey(inserts[i]) \notin KeysOf(store_before)) =>
        /\ Len(runs) >= 1 =>
               /\ runs[1].inserted = Len(inserts)
               /\ runs[1].skipped = 0
        /\ Len(runs) >= 2 =>
               /\ runs[2].inserted = 0
               /\ runs[2].skipped = Len(inserts)
               /\ runs[2].table = runs[1].table

C6_Witness ==
    /\ Len(runs) = 2
    /\ Len(inserts) >= 2
    /\ DistinctKeys(inserts)
    /\ \A i \in 1..Len(inserts) : NaturalKey(inserts[i]) \notin KeysOf(store_before)
    /\ store_before # <<>>

\* the halves that pass field validation and both lookups, and the candidate
\* each of them stands for
Passes(h) ==
    LET v == validate_half(h[3], h[1], h[2])
    IN  /\ v.errors = <<>>
        /\ ResolveEvaluationIds(api_participant, api_assessoringroup, v.model[1], stage,
                                h[1], h[2]).errors = <<>>
CandidateOf(h) ==
    LET m == validate_half(h[3], h[1], h[2]).model[1]
        ids == ResolveEvaluationIds(api_participant, api_assessoringroup, m, stage,
                                    h[1], h[2]).ids[1]
    IN  [row_number |-> h[1], half_index |-> h[2], group_id |-> m.group_id,
         chest_number |-> m.chest_number, candidate_name |-> m.candidate_name,
         assessor_name |-> m.assessor_name, grade |-> m.grade, comment |-> m.comment,
         stage |-> stage, assessor_id |-> ids[3], myun_id |-> ids[2], soldier_id |-> ids[1]]
PassingCandidates ==
    LET passing == SelectSeq(halves, Passes)
    IN  [i \in 1..Len(passing) |-> CandidateOf(passing[i])]

\* C7: _collect_inserts yields exactly one candidate per half that passes
\* validation and both lookups, holding the half's row_number, half_index and six
\* data fields, the stage and the resolved ids; and a run without duplicates and
\* without a failing insert ends with inserted_rows equal to their number
C7_OneCandidatePerResolvedHalf ==
    pc # "collect" =>
        /\ inserts = PassingCandidates
        /\ (/\ pc = "done"
            /\ DistinctKeys(PassingCandidates)
            /\ \A i \in 1..Len(PassingCandidates) :
                   NaturalKey(PassingCandidates[i]) \notin KeysOf(store_before)
            /\ outcome # "3")
           => counts.inserted_rows = Len(PassingCandidates)

\* enums/exit_code.py
ExitCode == [OK |-> "0", DUPLICATES |-> "2", RUNTIME_ERROR |-> "3", VALIDATION_ERROR |-> "4"]

\* the code the caller sees: raise SystemExit(None) exits with status 0
ReportedCode == IF outcome = "None" THEN ExitCode.OK ELSE outcome

\* C8: a run of main ends with one of the four outcome codes: validation-errors
\* when an error was collected, duplicates when a duplicate phase flagged a
\* candidate, runtime-error when an insert attempt raised, and success only when
\* none of these happened and the transaction was committed. Stated for the runs
\* whose _collect_inserts returns.
C8_OutcomeCodes ==
    (pc = "done" /\ outcome # "TypeError") =>
        LET duplicates == duplicate_inserts_in_excel # <<>>
                          \/ duplicate_inserts_in_excel_and_db # <<>>
        IN  /\ ReportedCode \in {ExitCode.OK, ExitCode.DUPLICATES, ExitCode.RUNTIME_ERROR,
                                 ExitCode.VALIDATION_ERROR}
            /\ all_errors # <<>> => ReportedCode = ExitCode.VALIDATION_ERROR
            /\ (duplicates /\ all_errors = <<>>) => ReportedCode = ExitCode.DUPLICATES
            /\ (InsertRaised /\ all_errors = <<>>) => ReportedCode = ExitCode.RUNTIME_ERROR
            /\ ReportedCode = ExitCode.OK =>
                   /\ all_errors = <<>>
                   /\ ~duplicates
                   /\ ~InsertRaised
                   /\ calls.commit = 1

\* a cell that is null or a string of whitespace only
Blank(v) == v.t = "None" \/ (v.t = "str" /\ \A i \in 1..Len(v.s) : v.s[i] = " ")
RequiredFieldSet == {"group_id", "chest_number", "grade", "comment"}
MissingFields(raw) == {f \in RequiredFieldSet : Blank(raw[f])}
ErrorsOf(errors, field, message) ==
    {i \in 1..Len(errors) : errors[i].field = field /\ errors[i].message = message}

\* C9: validate_half on a half whose set M of missing or blank required fields
\* is not empty returns no half; its errors hold exactly one 'missing required
\* field' error per field of M, tagged with the field, the row and the half, and
\* none for a field outside M
C9_OneErrorPerMissingField ==
    vresult # <<>> =>
        LET raw == raw_in[1].raw
            errors == vresult[1].errors
        IN  /\ MissingFields(raw) # {} => vresult[1].model = <<>>
            /\ \A f \in SeqRange(HalfKeys) :
                   Cardinality(ErrorsOf(errors, f, "missing required field")) =
                       IF f \in MissingFields(raw) THEN 1 ELSE 0
            /\ \A i \in 1..Len(errors) :
                   /\ errors[i].row_number = raw_in[1].row_number
                   /\ errors[i].half = raw_in[1].half

C9_Witness ==
    /\ vresult # <<>>
    /\ MissingFields(raw_in[1].raw) = {"group_id", "comment"}
    /\ Len(vresult[1].errors) = 3
    /\ Cardinality(ErrorsOf(vresult[1].errors, "grade", "must be an integer")) = 1

\* the integer a text of digits stands for, a sign and surrounding blanks allowed
IntegerText(chars) ==
    LET t == SelectSeq(chars, LAMBDA c : c # " ")
        body == IF t # <<>> /\ Head(t) = "-" THEN Tail(t) ELSE t
    IN  IF body # <<>> /\ \A i \in 1..Len(body) : IsDigit(body[i])
        THEN <<IF t = body THEN DigitsValue(body) ELSE 0 - DigitsValue(body)>>
        ELSE <<>>

\* the integer a value with zero fractional part stands for: an int, a float
\* such as 42.0, a text such as "10" or "10.0"; <<>> for every other value
WholeNumber(v) ==
    CASE v.t = "int" -> <<v.n>>
      [] v.t = "float" -> IF v.n % 10 = 0 THEN <<PyIntOfFloat(v.n)>> ELSE <<>>
      [] v.t = "str" ->
           IF \E k \in 1..Len(v.s) :
                  /\ v.s[k] = "."
                  /\ k < Len(v.s)
                  /\ \A j \in (k + 1)..Len(v.s) : v.s[j] = "0"
           THEN IntegerText(SubSeq(v.s, 1, (CHOOSE k \in 1..Len(v.s) : v.s[k] = ".") - 1))
           ELSE IntegerText(v.s)
      [] OTHER -> <<>>

\* C10: for group_id, chest_number and grade, an integer is kept and a value with
\* zero fractional part is coerced to its integer without error; every other
\* non-empty value gives a 'must be an integer' error for the field and no half
C10_IntegerCoercion ==
    vresult # <<>> =>
        \A f \in IntFieldSet :
            LET v == raw_in[1].raw[f]
                flagged == ErrorsOf(vresult[1].errors, f, "must be an integer") # {}
            IN  ~Blank(v) =>
                    IF WholeNumber(v) # <<>>
                    THEN /\ ~flagged
                         /\ vresult[1].model # <<>> => vresult[1].model[1][f] = WholeNumber(v)[1]
                    ELSE /\ flagged
                         /\ vresult[1].model = <<>>

\* the positions in halves of the tuples of half h of the k-th data row
Emitted(k, h) == {i \in 1..Len(halves) : halves[i][1] = k + 1 /\ halves[i][2] = h}
SomeFieldNonBlank(raw) == \E f \in SeqRange(HalfKeys) : ~Blank(raw[f])

CellOf(row, h, j) ==
    LET col == (h - 1) * half2_offset + j
    IN  IF col <= Len(row) THEN row[col] ELSE None
\* the half a row holds in the six columns of half h
PaddedHalf(row, h) ==
    [f \in SeqRange(HalfKeys) |->
        CellOf(row, h, CHOOSE j \in 1..Len(HalfKeys) : HalfKeys[j] = f)]

\* C13: a row that ends inside or before the columns of a half still gives every
\* cell it has in those columns to the named field, null to the others, and a
\* half with a non-blank cell among them is emitted with those values
C13_ShortRowPadding ==
    pc = "done" =>
        \A k \in 1..Len(sheet), h \in {1, 2} :
            LET padded == PaddedHalf(sheet[k], h)
            IN  SomeFieldNonBlank(padded) =>
                    /\ Emitted(k, h) # {}
                    /\ \A i \in Emitted(k, h) : halves[i][3] = padded

\* the errors of one emitted half: those of validation, or of the lookups when
\* validation passes
HalfErrors(h) ==
    LET v == validate_half(h[3], h[1], h[2])
    IN  IF v.errors # <<>> THEN v.errors
        ELSE ResolveEvaluationIds(api_participant, api_assessoringroup, v.model[1], stage,
                                  h[1], h[2]).errors
\* the errors of all the halves of the batch, in the order of the halves
BatchErrors ==
    LET upto[i \in 0..Len(halves)] ==
            IF i = 0 THEN <<>> ELSE upto[i - 1] \o HalfErrors(halves[i])
    IN  upto[Len(halves)]

\* C12: _collect_inserts goes through every half of the batch: the error list it
\* returns holds the errors of every failing half in the order of the halves, and
\* every half without errors is among the candidates, whatever the other halves
\* did. Stated for the batches with a failing half.
C12_EveryHalfProcessed ==
    (pc # "collect" /\ \E i \in 1..Len(halves) : ~Passes(halves[i])) =>
        /\ all_errors = BatchErrors
        /\ \A i \in 1..Len(halves) :
               Passes(halves[i]) =>
                   \E j \in 1..Len(inserts) :
                       /\ inserts[j].row_number = halves[i][1]
                       /\ inserts[j].half_index = halves[i][2]

\* the rows of the two tables the lookups of the resolved half match
ParticipantMatches ==
    {p \in api_participant : p.chest_number = resolve_in[1].half.chest_number}
GroupRoleMatches ==
    {g \in api_assessoringroup :
        /\ g.group_id = resolve_in[1].half.group_id
        /\ g.stage = stage
        /\ g.role = IF resolve_in[1].half_index = 1
                    THEN Roles.GROUP_COMMANDER ELSE Roles.GROUP_RESPONSIBLE}
\* the positions of the errors with a message, of the row and half resolved
ResolverErrors(message) ==
    {i \in 1..Len(resolved[1].errors) :
        /\ resolved[1].errors[i].message = message
        /\ resolved[1].errors[i].row_number = resolve_in[1].row_number
        /\ resolved[1].errors[i].half = resolve_in[1].half_index}

\* C14: _resolve_evaluation_ids returns one 'participant not found or not unique'
\* error exactly when the chest number matches no or several participants, one
\* 'assessoringroup not found or not unique' error exactly when group, stage and
\* role match no or several rows, both when both lookups fail, and no other
\* error; it returns identifiers exactly when both lookups match one row, and
\* they are the three ids of those rows
C14_BothLookupsReported ==
    resolved # <<>> =>
        LET pe == ResolverErrors("participant not found or not unique")
            ge == ResolverErrors("assessoringroup not found or not unique")
            r == resolved[1]
        IN  /\ Cardinality(pe) = IF Cardinality(ParticipantMatches) = 1 THEN 0 ELSE 1
            /\ Cardinality(ge) = IF Cardinality(GroupRoleMatches) = 1 THEN 0 ELSE 1
            /\ Len(r.errors) = Cardinality(pe) + Cardinality(ge)
            /\ r.ids # <<>> <=>
                   (Cardinality(ParticipantMatches) = 1 /\ Cardinality(GroupRoleMatches) = 1)
            /\ r.ids # <<>> =>
                   /\ r.errors = <<>>
                   /\ \A p \in ParticipantMatches : r.ids[1][1] = p.id /\ p.id \in Nat
                   /\ \A g \in GroupRoleMatches :
                          /\ r.ids[1][2] = g.myun_id /\ g.myun_id \in Nat
                          /\ r.ids[1][3] = g.assessor_id /\ g.assessor_id \in Nat

\* a half whose chest number matches two participants and whose group matches no
\* row, resolved to the two errors and no identifiers
C14_Witness ==
    /\ resolved # <<>>
    /\ Cardinality(ParticipantMatches) > 1
    /\ GroupRoleMatches = {}
    /\ Len(resolved[1].errors) = 2
    /\ resolved[1].ids = <<>>

\* the key of the i-th candidate is neither in the store the executor started on
\* nor the key of an earlier candidate of the list
KeyIsNew(i) ==
    /\ NaturalKey(inserts[i]) \notin KeysOf(committed)
    /\ \A j \in 1..(i - 1) : NaturalKey(inserts[j]) # NaturalKey(inserts[i])
LoggedAs(status) == {i \in 1..Len(exec_log) : exec_log[i].status = status}

\* C15: when _execute_inserts_and_log has gone through the list without an
\* exception, inserted_rows + skipped_rows is the number of candidates, the log
\* holds one row per candidate in the order of the list with the candidate's six
\* columns, and the row's status is 'inserted' exactly when the insert affected a
\* row, that is when the candidate's key was not in the store at that moment, and
\* 'skipped' otherwise
C15_ExecutorAccounting ==
    pc = "commit" =>
        /\ counts.inserted_rows + counts.skipped_rows = Len(inserts)
        /\ Len(exec_log) = Len(inserts)
        /\ counts.inserted_rows = Cardinality(LoggedAs("inserted"))
        /\ counts.skipped_rows = Cardinality(LoggedAs("skipped"))
        /\ Len(table) = Len(committed) + counts.inserted_rows
        /\ \A i \in 1..Len(inserts) :
               /\ \A c \in {"grade", "comment", "stage", "assessor_id", "myun_id",
                            "soldier_id"} : exec_log[i][c] = inserts[i][c]
               /\ exec_log[i].status = IF KeyIsNew(i) THEN "inserted" ELSE "skipped"

\* a list gone through with one candidate inserted, one skipped for a key of the
\* store and one skipped for the key of an earlier candidate
C15_Witness ==
    /\ pc = "commit"
    /\ committed # <<>>
    /\ \E i, j, k \in 1..Len(inserts) :
           /\ exec_log[i].status = "inserted"
           /\ exec_log[j].status = "skipped"
           /\ NaturalKey(inserts[j]) \in KeysOf(committed)
           /\ i < k
           /\ exec_log[k].status = "skipped"
           /\ NaturalKey(inserts[k]) = NaturalKey(inserts[i])

====
